---- MODULE Spec2Model ----
(***************************************************************************)
(* Credential caches of the two Lambda packages of the repository:         *)
(*   jwt-auth/src/jwt-connection-manager.ts   (JWTConnectionManager)       *)
(*   src/salesforce-connection-manager.ts     (SalesforceConnectionManager)*)
(* the Lambda entry points of jwt-auth/src/lambda-handler.ts, and the      *)
(* activation wait of jwt-auth/automation/setup-jwt-flow.js.               *)
(* A process runs one of them (variable pkg).  Async calls are modelled    *)
(* with one step per run-to-completion segment between two awaits.         *)
(* Strings are sequences of one-character strings (of name parts for the   *)
(* environment variables); times are milliseconds since the start of the   *)
(* process.                                                                *)
(***************************************************************************)
EXTENDS Integers, Sequences, FiniteSets, TLC

\* pkg: the package the process hosts; instance: 1 once the manager's static
\* field `instance` is set, 0 before; now: Date.now(); tokenCache,
\* connectionCache: the managers' maps; pc, locals: where each invocation
\* slot stands in getConnection and its local variables; acq: the number of
\* acquisitions (token POSTs, created connections) made so far; ret: what the
\* last operation returned; env: process.env
VARIABLES pkg, instance, now, tokenCache, connectionCache, pc, locals, acq, ret, env

vars == <<pkg, instance, now, tokenCache, connectionCache, pc, locals, acq, ret, env>>

(* ------------------------------ bounds -------------------------------- *)
\* number of acquisitions (token POSTs / created connections) explored
MaxAcq == 2
\* the process does not start on a second boundary
StartMs == 500
\* the steps by which the clock of the jwt package advances and its horizon,
\* in ms: more than CACHE_BUFFER, and up to a boundary
JwtTickShort == 60000
JwtTickLong == 150000
JwtMaxTime == 180500
\* clock granularity and horizon of the oauth package, in ms
OAuthTick == 300000
OAuthMaxTime == 1800500

\* slots for the invocations that run concurrently in the process
Procs == {1, 2}

\* an arriving invocation takes the lowest free slot
FreeSlot(p) == pc[p] = "idle" /\ \A q \in Procs : q < p => pc[q] # "idle"

(* ------------------------- JWTConnectionManager ----------------------- *)
TOKEN_LIFETIME == 3 * 60 * 1000
CACHE_BUFFER == 30 * 1000

\* the descriptors the callers pass (interface JWTConfig); cfg 1 and cfg 2
\* are different principals whose fields contain the character '_'; cfg 4
\* and cfg 5 name the principal of cfg 3, one with a key that is no RSA key
\* and another org's instanceUrl, one without instanceUrl ("" stands for an
\* absent field)
JWTConfigs ==
  << [clientId |-> <<"a", "_", "b">>, username |-> <<"c">>,
      privateKey |-> "rsa", instanceUrl |-> "https://x", audience |-> ""],
     [clientId |-> <<"a">>, username |-> <<"b", "_", "c">>,
      privateKey |-> "rsa", instanceUrl |-> "https://x", audience |-> ""],
     [clientId |-> <<"a">>, username |-> <<"c">>,
      privateKey |-> "rsa", instanceUrl |-> "https://x", audience |-> "https://login"],
     [clientId |-> <<"a">>, username |-> <<"c">>,
      privateKey |-> "ec", instanceUrl |-> "https://y", audience |-> ""],
     [clientId |-> <<"a">>, username |-> <<"c">>,
      privateKey |-> "rsa", instanceUrl |-> "", audience |-> ""] >>

\* variant of generateCacheKey: the key also names the instanceUrl
generateCacheKey_PerInstance(config) ==
  <<"j", "w", "t", "_">> \o config.clientId \o <<"_">> \o config.username
    \o <<"_", config.instanceUrl>>

\* variant of generateCacheKey: a digit of the clock appended to the key
generateCacheKey_Stamped(config) ==
  <<"j", "w", "t", "_">> \o config.clientId \o <<"_">> \o config.username
    \o << IF (now \div 10000) % 2 = 0 THEN "0" ELSE "1" >>

\* `jwt_${config.clientId}_${config.username}`
generateCacheKey(config) ==
  <<"j", "w", "t", "_">> \o config.clientId \o <<"_">> \o config.username

\* variants of isTokenValid: the buffer applied a second time; the boundary
\* instant taken as still valid
isTokenValid_DoubleBuffer(cached) == now + CACHE_BUFFER < cached.expiresAt

isTokenValid_Inclusive(cached) == now <= cached.expiresAt

\* variant of isTokenValid: an entry counts only while no call is in flight
isTokenValid_WhenQuiet(cached) ==
  now < cached.expiresAt /\ \A p \in Procs : pc[p] = "idle"

\* Date.now() < cached.expiresAt
isTokenValid(cached) == now < cached.expiresAt

\* variant of MapSet: the map is rebuilt with the written key alone
MapSet_Fresh(m, key, val) == [k \in {key} |-> val]

\* Map.prototype.set
MapSet(m, key, val) ==
  [k \in (DOMAIN m) \cup {key} |-> IF k = key THEN val ELSE m[k]]

\* Map.prototype.delete
MapDelete(m, key) == [k \in (DOMAIN m) \ {key} |-> m[k]]

\* new Map() / Map.prototype.clear
EmptyMap == [k \in {} |-> 0]

\* variant of cacheToken: the buffer forgotten
cacheToken_NoBuffer(cache, key, token) ==
  MapSet(cache, key, [token |-> token, expiresAt |-> now + TOKEN_LIFETIME])

\* variant of cacheToken: an entry of the key that is already there is kept
cacheToken_IfAbsent(cache, key, token) ==
  IF key \in DOMAIN cache THEN cache
  ELSE MapSet(cache, key,
              [token |-> token, expiresAt |-> now + TOKEN_LIFETIME - CACHE_BUFFER])

\* cacheToken(cacheKey, token)
cacheToken(cache, key, token) ==
  MapSet(cache, key,
         [token |-> token, expiresAt |-> now + TOKEN_LIFETIME - CACHE_BUFFER])

\* variant of jwtPayload: the audience override is ignored
jwtPayload_NoOverride(config) ==
  [iss |-> config.clientId,
   sub |-> config.username,
   aud |-> config.instanceUrl,
   exp |-> (now \div 1000) + (TOKEN_LIFETIME \div 1000)]

\* the payload handed to jwt.sign in generateJWTToken
jwtPayload(config) ==
  [iss |-> config.clientId,
   sub |-> config.username,
   aud |-> IF config.audience # "" THEN config.audience ELSE config.instanceUrl,
   exp |-> (now \div 1000) + (TOKEN_LIFETIME \div 1000)]

\* variant of jwtSignAccepts: the key type is not checked
jwtSignAccepts_AnyKey(privateKey, algorithm) == TRUE

\* jwt.sign(jwtPayload, config.privateKey, {algorithm: 'RS256', ...}) throws
\* unless the key is a key of the algorithm's family
jwtSignAccepts(privateKey, algorithm) ==
  algorithm = "RS256" => privateKey = "rsa"

\* the options generateJWTToken passes to jwt.sign
jwtSignOptions == [algorithm |-> "RS256", header |-> [alg |-> "RS256"]]

\* the assertion jwt.sign returns for a key it accepts: the header is the
\* default {alg: options.algorithm, typ: 'JWT'} overlaid with options.header
jwtSign(payload, privateKey, options) ==
  [header |-> [alg |-> options.header.alg, typ |-> "JWT"],
   payload |-> payload,
   algorithm |-> options.algorithm]

\* `${config.instanceUrl}/services/oauth2/token`
tokenUrl(config) ==
  << IF config.instanceUrl = "" THEN "undefined" ELSE config.instanceUrl,
     "/services/oauth2/token" >>

\* fetch(tokenUrl, ...) rejects, sending nothing, unless the URL is absolute
fetchAccepts(url) == url[1] \in {"https://x", "https://y"}

\* the bearer credential the issuer mints for the n-th exchange: opaque to
\* the manager; it is issued to the principal named by the assertion
AccessToken(n, payload, mintedAt) ==
  [n |-> n, iss |-> payload.iss, sub |-> payload.sub, mintedAt |-> mintedAt]

\* tokenData.access_token of a body without that field
Undefined == [undefined |-> TRUE]

\* what the token endpoint can answer to the n-th POST
Responses(n, payload, mintedAt) ==
  { [ok |-> TRUE, status |-> 200, access_token |-> AccessToken(n, payload, mintedAt)],
    [ok |-> TRUE, status |-> 200, access_token |-> Undefined],
    [ok |-> FALSE, status |-> 400, text |-> "invalid_grant"] }

NoLocals == [i |-> 0]

\* ret holds what the operation that ran last at the current instant
\* returned (for a call that reached an await: kind "pending"), with the keys
\* clearExpired* logged and the counts of the entries clearAll* dropped
NoRet == [op |-> "none"]

\* variant of jsforceConnection: the audience is taken for the server
jsforceConnection_Audience(config, accessToken) ==
  [serverUrl |-> config.audience, accessToken |-> accessToken, version |-> "58.0"]

\* new jsforce.Connection({serverUrl: config.instanceUrl, accessToken,
\* version: '58.0'}) in getConnection
jsforceConnection(config, accessToken) ==
  [serverUrl |-> config.instanceUrl, accessToken |-> accessToken, version |-> "58.0"]

\* variant of JwtGetInstance: every call constructs a new manager
JwtGetInstance_AlwaysNew ==
  /\ pkg = "jwt" /\ UNCHANGED env
  /\ instance' = 1
  /\ tokenCache' = EmptyMap
  /\ ret' = [op |-> "getInstance", created |-> (instance = 0)]
  /\ UNCHANGED <<pkg, now, connectionCache, pc, locals, acq>>

\* JWTConnectionManager.getInstance(): the static field `instance` is set by
\* the first call (the constructor starts with an empty token cache) and
\* returned as it is by every later call
JwtGetInstance ==
  /\ pkg = "jwt" /\ UNCHANGED env
  /\ IF instance = 0
     THEN instance' = 1 /\ tokenCache' = EmptyMap
     ELSE UNCHANGED <<instance, tokenCache>>
  /\ ret' = [op |-> "getInstance", created |-> (instance = 0)]
  /\ UNCHANGED <<pkg, now, connectionCache, pc, locals, acq>>

\* variant of JwtGetConnection: a hit renews the boundary of the entry
JwtGetConnection_Sliding(p, i) ==
  LET config == JWTConfigs[i]
      cacheKey == generateCacheKey(config)
      hit == cacheKey \in DOMAIN tokenCache /\ isTokenValid(tokenCache[cacheKey])
  IN /\ pkg = "jwt" /\ instance = 1 /\ UNCHANGED env
     /\ FreeSlot(p)
     /\ IF hit
        THEN /\ ret' = [op |-> "getConnection", i |-> i, key |-> cacheKey,
                        kind |-> "hit",
                        accessToken |-> tokenCache[cacheKey].token,
                        serverUrl |->
                          jsforceConnection(config, tokenCache[cacheKey].token).serverUrl,
                        version |->
                          jsforceConnection(config, tokenCache[cacheKey].token).version]
             /\ tokenCache' = cacheToken(tokenCache, cacheKey, tokenCache[cacheKey].token)
             /\ UNCHANGED <<pc, locals, acq>>
        ELSE IF ~jwtSignAccepts(config.privateKey, jwtSignOptions.algorithm)
        THEN /\ ret' = [op |-> "getConnection", i |-> i, key |-> cacheKey,
                        kind |-> "error", thrownBy |-> "jwt.sign"]
             /\ UNCHANGED <<pc, locals, acq, tokenCache>>
        ELSE IF ~fetchAccepts(tokenUrl(config))
        THEN /\ ret' = [op |-> "getConnection", i |-> i, key |-> cacheKey,
                        kind |-> "error", thrownBy |-> "fetch"]
             /\ UNCHANGED <<pc, locals, acq, tokenCache>>
        ELSE /\ acq < MaxAcq
             /\ UNCHANGED tokenCache
             /\ acq' = acq + 1
             /\ pc' = [pc EXCEPT ![p] = "fetch"]
             /\ locals' = [locals EXCEPT ![p] =
                             [i |-> i, cacheKey |-> cacheKey, n |-> acq + 1,
                              payload |-> jwtPayload(config), mintedAt |-> now,
                              assertion |-> jwtSign(jwtPayload(config),
                                                    config.privateKey, jwtSignOptions),
                              url |-> tokenUrl(config)]]
             /\ ret' = [op |-> "getConnection", i |-> i, key |-> cacheKey,
                        kind |-> "pending"]
     /\ UNCHANGED <<pkg, instance, now, connectionCache>>

\* getConnection -> getAccessToken up to its first await (or to its return
\* on the fast path)
JwtGetConnection(p, i) ==
  LET config == JWTConfigs[i]
      cacheKey == generateCacheKey(config)
      hit == cacheKey \in DOMAIN tokenCache /\ isTokenValid(tokenCache[cacheKey])
  IN /\ pkg = "jwt" /\ instance = 1 /\ UNCHANGED env
     /\ FreeSlot(p)
     /\ IF hit
        THEN /\ ret' = [op |-> "getConnection", i |-> i, key |-> cacheKey,
                        kind |-> "hit",
                        accessToken |-> tokenCache[cacheKey].token,
                        serverUrl |->
                          jsforceConnection(config, tokenCache[cacheKey].token).serverUrl,
                        version |->
                          jsforceConnection(config, tokenCache[cacheKey].token).version]
             /\ UNCHANGED <<pc, locals, acq>>
        ELSE IF ~jwtSignAccepts(config.privateKey, jwtSignOptions.algorithm)
        THEN /\ ret' = [op |-> "getConnection", i |-> i, key |-> cacheKey,
                        kind |-> "error", thrownBy |-> "jwt.sign"]
             /\ UNCHANGED <<pc, locals, acq>>
        ELSE IF ~fetchAccepts(tokenUrl(config))
        THEN /\ ret' = [op |-> "getConnection", i |-> i, key |-> cacheKey,
                        kind |-> "error", thrownBy |-> "fetch"]
             /\ UNCHANGED <<pc, locals, acq>>
        ELSE /\ acq < MaxAcq
             /\ acq' = acq + 1
             /\ pc' = [pc EXCEPT ![p] = "fetch"]
             /\ locals' = [locals EXCEPT ![p] =
                             [i |-> i, cacheKey |-> cacheKey, n |-> acq + 1,
                              payload |-> jwtPayload(config), mintedAt |-> now,
                              assertion |-> jwtSign(jwtPayload(config),
                                                    config.privateKey, jwtSignOptions),
                              url |-> tokenUrl(config)]]
             /\ ret' = [op |-> "getConnection", i |-> i, key |-> cacheKey,
                        kind |-> "pending"]
     /\ UNCHANGED <<pkg, instance, now, tokenCache, connectionCache>>

\* variant of exchangeError: the body is left out of the message
exchangeError_StatusOnly(response) ==
  <<"JWT token exchange failed: ", response.status, " - ", "">>

\* `JWT token exchange failed: ${response.status} - ${error}`, where error
\* is await response.text()
exchangeError(response) ==
  <<"JWT token exchange failed: ", response.status, " - ", response.text>>

\* variant of JwtFetchDone: a failed exchange drops the entry of the key
JwtFetchDone_EvictOnError(p, response) ==
  /\ pkg = "jwt" /\ instance = 1 /\ UNCHANGED env
  /\ pc[p] = "fetch"
  /\ LET l == locals[p] IN
       IF ~response.ok
       THEN /\ ret' = [op |-> "getConnection", i |-> l.i, key |-> l.cacheKey,
                       kind |-> "error", thrownBy |-> "generateJWTToken",
                       message |-> exchangeError(response)]
            /\ tokenCache' = MapDelete(tokenCache, l.cacheKey)
       ELSE /\ tokenCache' = cacheToken(tokenCache, l.cacheKey, response.access_token)
            /\ ret' = [op |-> "getConnection", i |-> l.i, key |-> l.cacheKey,
                       kind |-> "miss",
                       accessToken |-> response.access_token,
                       serverUrl |->
                         jsforceConnection(JWTConfigs[l.i], response.access_token).serverUrl,
                       version |->
                         jsforceConnection(JWTConfigs[l.i], response.access_token).version]
  /\ pc' = [pc EXCEPT ![p] = "idle"]
  /\ locals' = [locals EXCEPT ![p] = NoLocals]
  /\ UNCHANGED <<pkg, instance, now, connectionCache, acq>>

\* variant of JwtFetchDone: a failed exchange is posted again
JwtFetchDone_RetryOnError(p, response) ==
  /\ pkg = "jwt" /\ instance = 1 /\ UNCHANGED env
  /\ pc[p] = "fetch"
  /\ LET l == locals[p] IN
       IF ~response.ok /\ acq < MaxAcq
       THEN /\ ret' = [op |-> "getConnection", i |-> l.i, key |-> l.cacheKey,
                       kind |-> "pending"]
            /\ acq' = acq + 1
            /\ locals' = [locals EXCEPT ![p].n = acq + 1]
            /\ UNCHANGED <<tokenCache, pc>>
       ELSE /\ IF ~response.ok
               THEN /\ ret' = [op |-> "getConnection", i |-> l.i, key |-> l.cacheKey,
                               kind |-> "error", thrownBy |-> "generateJWTToken",
                               message |-> exchangeError(response)]
                    /\ UNCHANGED tokenCache
               ELSE /\ tokenCache' = cacheToken(tokenCache, l.cacheKey,
                                                response.access_token)
                    /\ ret' = [op |-> "getConnection", i |-> l.i, key |-> l.cacheKey,
                               kind |-> "miss",
                               accessToken |-> response.access_token,
                               serverUrl |->
                                 jsforceConnection(JWTConfigs[l.i], response.access_token).serverUrl,
                               version |->
                                 jsforceConnection(JWTConfigs[l.i], response.access_token).version]
            /\ pc' = [pc EXCEPT ![p] = "idle"]
            /\ locals' = [locals EXCEPT ![p] = NoLocals]
            /\ UNCHANGED acq
  /\ UNCHANGED <<pkg, instance, now, connectionCache>>

\* generateJWTToken after the fetch resolves, then the rest of getAccessToken
\* and getConnection
JwtFetchDone(p, response) ==
  /\ pkg = "jwt" /\ instance = 1 /\ UNCHANGED env
  /\ pc[p] = "fetch"
  /\ LET l == locals[p] IN
       IF ~response.ok
       THEN /\ ret' = [op |-> "getConnection", i |-> l.i, key |-> l.cacheKey,
                       kind |-> "error", thrownBy |-> "generateJWTToken",
                       message |-> exchangeError(response)]
            /\ UNCHANGED tokenCache
       ELSE /\ tokenCache' = cacheToken(tokenCache, l.cacheKey, response.access_token)
            /\ ret' = [op |-> "getConnection", i |-> l.i, key |-> l.cacheKey,
                       kind |-> "miss",
                       accessToken |-> response.access_token,
                       serverUrl |->
                         jsforceConnection(JWTConfigs[l.i], response.access_token).serverUrl,
                       version |->
                         jsforceConnection(JWTConfigs[l.i], response.access_token).version]
  /\ pc' = [pc EXCEPT ![p] = "idle"]
  /\ locals' = [locals EXCEPT ![p] = NoLocals]
  /\ UNCHANGED <<pkg, instance, now, connectionCache, acq>>

\* variant of JwtFetchResolves: an answer is handled only once every call
\* that started earlier is done
JwtFetchResolves_InOrder(p) ==
  /\ pc[p] = "fetch"
  /\ pkg = "jwt" /\ instance = 1 /\ UNCHANGED env
  /\ \A q \in Procs : pc[q] = "fetch" => locals[q].n >= locals[p].n
  /\ \E response \in Responses(locals[p].n, locals[p].payload, locals[p].mintedAt) :
       JwtFetchDone(p, response)

\* the awaited fetch of a call resolves with one of the possible answers
JwtFetchResolves(p) ==
  /\ pc[p] = "fetch"
  /\ pkg = "jwt" /\ instance = 1 /\ UNCHANGED env
  /\ \E response \in Responses(locals[p].n, locals[p].payload, locals[p].mintedAt) :
       JwtFetchDone(p, response)

\* the for-of loop of clearExpiredTokens over the entries not yet visited
RECURSIVE clearExpiredLoop(_, _, _)
clearExpiredLoop(cache, todo, t) ==
  IF todo = {} THEN cache
  ELSE LET key == CHOOSE k \in todo : TRUE
           next == IF t >= cache[key].expiresAt THEN MapDelete(cache, key) ELSE cache
       IN clearExpiredLoop(next, todo \ {key}, t)

\* variant of clearExpiredTokens: an entry at its boundary instant is kept
clearExpiredTokens_Strict(cache, t) ==
  [k \in {x \in DOMAIN cache : ~(t > cache[x].expiresAt)} |-> cache[k]]

clearExpiredTokens(cache, t) == clearExpiredLoop(cache, DOMAIN cache, t)

\* the counting loop of getCacheStats over the values not yet visited
RECURSIVE jwtStatsLoop(_, _, _, _)
jwtStatsLoop(cache, todo, t, counts) ==
  IF todo = {} THEN counts
  ELSE LET key == CHOOSE k \in todo : TRUE
           c == IF t < cache[key].expiresAt
                THEN [counts EXCEPT !.valid = @ + 1]
                ELSE [counts EXCEPT !.expired = @ + 1]
       IN jwtStatsLoop(cache, todo \ {key}, t, c)

\* variant of jwtGetCacheStats: an entry at its boundary instant counts as
\* valid
jwtGetCacheStats_Inclusive(cache, t) ==
  [total |-> Cardinality(DOMAIN cache),
   valid |-> Cardinality({k \in DOMAIN cache : t <= cache[k].expiresAt}),
   expired |-> Cardinality({k \in DOMAIN cache : t > cache[k].expiresAt})]

\* variant of jwtGetCacheStats: total counts the valid entries only
jwtGetCacheStats_TotalValid(cache, t) ==
  LET counts == jwtStatsLoop(cache, DOMAIN cache, t, [valid |-> 0, expired |-> 0])
  IN [total |-> counts.valid, valid |-> counts.valid, expired |-> counts.expired]

\* getCacheStats()
jwtGetCacheStats(cache, t) ==
  LET counts == jwtStatsLoop(cache, DOMAIN cache, t, [valid |-> 0, expired |-> 0])
  IN [total |-> Cardinality(DOMAIN cache), valid |-> counts.valid,
      expired |-> counts.expired]

\* variant of JwtClearExpiredTokens: the call needs something to look at
JwtClearExpiredTokens_NeedsEntries ==
  /\ pkg = "jwt" /\ instance = 1 /\ UNCHANGED env
  /\ tokenCache # EmptyMap
  /\ tokenCache' = clearExpiredTokens(tokenCache, now)
  /\ ret' = [op |-> "clearExpired", logged |-> (DOMAIN tokenCache) \ (DOMAIN tokenCache')]
  /\ UNCHANGED <<pkg, instance, now, connectionCache, pc, locals, acq>>

\* clearExpiredTokens()
JwtClearExpiredTokens ==
  /\ pkg = "jwt" /\ instance = 1 /\ UNCHANGED env
  /\ tokenCache' = clearExpiredTokens(tokenCache, now)
  /\ ret' = [op |-> "clearExpired", logged |-> (DOMAIN tokenCache) \ (DOMAIN tokenCache')]
  /\ UNCHANGED <<pkg, instance, now, connectionCache, pc, locals, acq>>

\* variant of clearAllTokens: only the expired entries go
JwtClearAllTokens_OnlyExpired ==
  /\ pkg = "jwt" /\ instance = 1 /\ UNCHANGED env
  /\ tokenCache' = clearExpiredTokens(tokenCache, now)
  /\ ret' = [op |-> "clearAll", dropped |-> jwtGetCacheStats(tokenCache, now)]
  /\ UNCHANGED <<pkg, instance, now, connectionCache, pc, locals, acq>>

JwtClearAllTokens ==
  /\ pkg = "jwt" /\ instance = 1 /\ UNCHANGED env
  /\ tokenCache' = EmptyMap
  /\ ret' = [op |-> "clearAll", dropped |-> jwtGetCacheStats(tokenCache, now)]
  /\ UNCHANGED <<pkg, instance, now, connectionCache, pc, locals, acq>>

\* variant of getCacheStats: the expired entries are pruned while counting
JwtGetCacheStats_Pruning ==
  /\ pkg = "jwt" /\ instance = 1 /\ UNCHANGED env
  /\ ret' = [op |-> "getCacheStats", stats |-> jwtGetCacheStats(tokenCache, now)]
  /\ tokenCache' = clearExpiredTokens(tokenCache, now)
  /\ UNCHANGED <<pkg, instance, now, connectionCache, pc, locals, acq>>

JwtGetCacheStats ==
  /\ pkg = "jwt" /\ instance = 1 /\ UNCHANGED env
  /\ ret' = [op |-> "getCacheStats", stats |-> jwtGetCacheStats(tokenCache, now)]
  /\ UNCHANGED <<pkg, instance, now, tokenCache, connectionCache, pc, locals, acq>>

\* Date.now() advances
JwtTickClock(step) ==
  /\ pkg = "jwt" /\ UNCHANGED env
  /\ now + step <= JwtMaxTime
  /\ now' = now + step
  /\ ret' = NoRet
  /\ UNCHANGED <<pkg, instance, tokenCache, connectionCache, pc, locals, acq>>

(* --------------------- SalesforceConnectionManager -------------------- *)
CACHE_TTL == 30 * 60 * 1000

\* the (config, refreshToken, cacheKey?) arguments the callers pass; given
\* tells whether a cacheKey was passed at all; inputs 1 and 2 are different
\* principals whose fields contain the character ':'; inputs 3, 4 and 5 have
\* one config and refreshToken, 3 with the empty string as cache key, 4 and 5
\* with cache keys 'd' and 'e'; input 6 has the config of input 1 and the
\* cache key of input 4
OAuthInputs ==
  << [config |-> [clientId |-> <<"a", ":", "b">>, clientSecret |-> "s",
                  redirectUri |-> "r", loginUrl |-> ""],
      refreshToken |-> <<"c">>, given |-> FALSE, cacheKey |-> <<>>],
     [config |-> [clientId |-> <<"a">>, clientSecret |-> "s",
                  redirectUri |-> "r", loginUrl |-> ""],
      refreshToken |-> <<"b", ":", "c">>, given |-> FALSE, cacheKey |-> <<>>],
     [config |-> [clientId |-> <<"a">>, clientSecret |-> "s",
                  redirectUri |-> "r", loginUrl |-> ""],
      refreshToken |-> <<"c">>, given |-> TRUE, cacheKey |-> <<>>],
     [config |-> [clientId |-> <<"a">>, clientSecret |-> "s",
                  redirectUri |-> "r", loginUrl |-> ""],
      refreshToken |-> <<"c">>, given |-> TRUE, cacheKey |-> <<"d">>],
     [config |-> [clientId |-> <<"a">>, clientSecret |-> "s",
                  redirectUri |-> "r", loginUrl |-> ""],
      refreshToken |-> <<"c">>, given |-> TRUE, cacheKey |-> <<"e">>],
     [config |-> [clientId |-> <<"a", ":", "b">>, clientSecret |-> "s",
                  redirectUri |-> "r", loginUrl |-> ""],
      refreshToken |-> <<"c">>, given |-> TRUE, cacheKey |-> <<"d">>] >>

\* UTF-8 code of the characters the inputs use (Buffer.from(string))
CharCode(ch) ==
  CASE ch = ":" -> 58
    [] ch = "_" -> 95
    [] ch = "a" -> 97
    [] ch = "b" -> 98
    [] ch = "c" -> 99
    [] ch = "d" -> 100

Utf8(str) == [k \in 1..Len(str) |-> CharCode(str[k])]

\* the base64 alphabet, indexed from 1
Base64Alphabet ==
  << "A", "B", "C", "D", "E", "F", "G", "H", "I", "J", "K", "L", "M",
     "N", "O", "P", "Q", "R", "S", "T", "U", "V", "W", "X", "Y", "Z",
     "a", "b", "c", "d", "e", "f", "g", "h", "i", "j", "k", "l", "m",
     "n", "o", "p", "q", "r", "s", "t", "u", "v", "w", "x", "y", "z",
     "0", "1", "2", "3", "4", "5", "6", "7", "8", "9", "+", "/" >>

Sextet(v) == Base64Alphabet[v + 1]

\* Buffer.prototype.toString('base64'): three bytes to four characters,
\* '=' padding on the last group
RECURSIVE Base64(_)
Base64(bytes) ==
  IF Len(bytes) = 0 THEN <<>>
  ELSE IF Len(bytes) = 1
  THEN << Sextet(bytes[1] \div 4), Sextet((bytes[1] % 4) * 16), "=", "=" >>
  ELSE IF Len(bytes) = 2
  THEN << Sextet(bytes[1] \div 4),
          Sextet((bytes[1] % 4) * 16 + bytes[2] \div 16),
          Sextet((bytes[2] % 16) * 4), "=" >>
  ELSE << Sextet(bytes[1] \div 4),
          Sextet((bytes[1] % 4) * 16 + bytes[2] \div 16),
          Sextet((bytes[2] % 16) * 4 + bytes[3] \div 64),
          Sextet(bytes[3] % 64) >> \o Base64(SubSeq(bytes, 4, Len(bytes)))

\* `sf_conn_${Buffer.from(`${config.clientId}:${refreshToken}`).toString('base64')}`
oauthGenerateCacheKey(config, refreshToken) ==
  LET hash == Base64(Utf8(config.clientId \o <<":">> \o refreshToken))
  IN <<"s", "f", "_", "c", "o", "n", "n", "_">> \o hash

\* variant of isConnectionValid: the connection still counts at the ceiling
isConnectionValid_Inclusive(cached) == now - cached.createdAt <= CACHE_TTL

\* Date.now() - cached.createdAt < this.CACHE_TTL
isConnectionValid(cached) == now - cached.createdAt < CACHE_TTL

cacheConnection(cache, key, connection) ==
  MapSet(cache, key, [connection |-> connection, createdAt |-> now])

\* the jsforce.Connection createConnection builds as the n-th of the process
createConnection(n, config, refreshToken) ==
  [n |-> n,
   oauth2 |-> [clientId |-> config.clientId, clientSecret |-> config.clientSecret,
               redirectUri |-> config.redirectUri,
               loginUrl |-> IF config.loginUrl # "" THEN config.loginUrl
                            ELSE "https://login.salesforce.com"],
   refreshToken |-> refreshToken, version |-> "58.0"]

\* variant of connectionKey: an explicit cache key is scoped by the derived
\* key
connectionKey_Scoped(in) ==
  IF in.given /\ in.cacheKey # <<>>
  THEN oauthGenerateCacheKey(in.config, in.refreshToken) \o <<"_">> \o in.cacheKey
  ELSE oauthGenerateCacheKey(in.config, in.refreshToken)

\* variant of connectionKey: the explicit cache key is ignored
connectionKey_Derived(in) == oauthGenerateCacheKey(in.config, in.refreshToken)

\* const key = cacheKey || this.generateCacheKey(config, refreshToken)
connectionKey(in) ==
  IF in.given /\ in.cacheKey # <<>> THEN in.cacheKey
  ELSE oauthGenerateCacheKey(in.config, in.refreshToken)

\* SalesforceConnectionManager.getInstance()
OAuthGetInstance ==
  /\ pkg = "oauth" /\ UNCHANGED env
  /\ IF instance = 0
     THEN instance' = 1 /\ connectionCache' = EmptyMap
     ELSE UNCHANGED <<instance, connectionCache>>
  /\ ret' = [op |-> "getInstance", created |-> (instance = 0)]
  /\ UNCHANGED <<pkg, now, tokenCache, pc, locals, acq>>

\* getConnection up to its await of createConnection (or to its return on
\* the fast path)
OAuthGetConnection(p, i) ==
  LET in == OAuthInputs[i]
      key == connectionKey(in)
      hit == key \in DOMAIN connectionCache /\ isConnectionValid(connectionCache[key])
  IN /\ pkg = "oauth" /\ instance = 1 /\ UNCHANGED env
     /\ FreeSlot(p)
     /\ IF hit
        THEN /\ ret' = [op |-> "getConnection", i |-> i, key |-> key, kind |-> "hit",
                        connection |-> connectionCache[key].connection]
             /\ UNCHANGED <<pc, locals, acq>>
        ELSE /\ acq < MaxAcq
             /\ acq' = acq + 1
             /\ pc' = [pc EXCEPT ![p] = "created"]
             /\ locals' = [locals EXCEPT ![p] =
                             [i |-> i, cacheKey |-> key,
                              connection |-> createConnection(acq + 1, in.config,
                                                              in.refreshToken)]]
             /\ ret' = [op |-> "getConnection", i |-> i, key |-> key, kind |-> "pending"]
     /\ UNCHANGED <<pkg, instance, now, tokenCache, connectionCache>>

\* getConnection after the await: cacheConnection and return
OAuthConnectionCreated(p) ==
  /\ pkg = "oauth" /\ instance = 1 /\ UNCHANGED env
  /\ pc[p] = "created"
  /\ connectionCache' = cacheConnection(connectionCache, locals[p].cacheKey,
                                        locals[p].connection)
  /\ ret' = [op |-> "getConnection", i |-> locals[p].i, key |-> locals[p].cacheKey,
             kind |-> "miss",
             connection |-> locals[p].connection]
  /\ pc' = [pc EXCEPT ![p] = "idle"]
  /\ locals' = [locals EXCEPT ![p] = NoLocals]
  /\ UNCHANGED <<pkg, instance, now, tokenCache, acq>>

\* the for-of loop of clearExpiredConnections over the entries not yet visited
RECURSIVE clearExpiredConnLoop(_, _, _)
clearExpiredConnLoop(cache, todo, t) ==
  IF todo = {} THEN cache
  ELSE LET key == CHOOSE k \in todo : TRUE
           next == IF t - cache[key].createdAt >= CACHE_TTL
                   THEN MapDelete(cache, key) ELSE cache
       IN clearExpiredConnLoop(next, todo \ {key}, t)

clearExpiredConnections(cache, t) == clearExpiredConnLoop(cache, DOMAIN cache, t)

\* the counting loop of getCacheStats over the values not yet visited
RECURSIVE oauthStatsLoop(_, _, _, _)
oauthStatsLoop(cache, todo, t, counts) ==
  IF todo = {} THEN counts
  ELSE LET key == CHOOSE k \in todo : TRUE
           c == IF t - cache[key].createdAt < CACHE_TTL
                THEN [counts EXCEPT !.valid = @ + 1]
                ELSE [counts EXCEPT !.expired = @ + 1]
       IN oauthStatsLoop(cache, todo \ {key}, t, c)

oauthGetCacheStats(cache, t) ==
  LET counts == oauthStatsLoop(cache, DOMAIN cache, t, [valid |-> 0, expired |-> 0])
  IN [total |-> Cardinality(DOMAIN cache), valid |-> counts.valid,
      expired |-> counts.expired]

OAuthClearExpiredConnections ==
  /\ pkg = "oauth" /\ instance = 1 /\ UNCHANGED env
  /\ connectionCache' = clearExpiredConnections(connectionCache, now)
  /\ ret' = [op |-> "clearExpired",
             logged |-> (DOMAIN connectionCache) \ (DOMAIN connectionCache')]
  /\ UNCHANGED <<pkg, instance, now, tokenCache, pc, locals, acq>>

OAuthClearAllConnections ==
  /\ pkg = "oauth" /\ instance = 1 /\ UNCHANGED env
  /\ connectionCache' = EmptyMap
  /\ ret' = [op |-> "clearAll", dropped |-> oauthGetCacheStats(connectionCache, now)]
  /\ UNCHANGED <<pkg, instance, now, tokenCache, pc, locals, acq>>

OAuthGetCacheStats ==
  /\ pkg = "oauth" /\ instance = 1 /\ UNCHANGED env
  /\ ret' = [op |-> "getCacheStats", stats |-> oauthGetCacheStats(connectionCache, now)]
  /\ UNCHANGED <<pkg, instance, now, tokenCache, connectionCache, pc, locals, acq>>

\* Date.now() advances
OAuthTickClock(step) ==
  /\ pkg = "oauth" /\ UNCHANGED env
  /\ now + step <= OAuthMaxTime
  /\ now' = now + step
  /\ ret' = NoRet
  /\ UNCHANGED <<pkg, instance, tokenCache, connectionCache, pc, locals, acq>>

(* ------------------------ jwt-auth lambda-handler --------------------- *)
\* longest SF_SECRET_NAME / SF_PARAMETER_PREFIX (in name parts) a call may
\* write
MaxNameLen == 5

\* a value read from process.env: a string (a sequence of name parts) or
\* undefined
EnvUnset == [set |-> FALSE, s |-> <<>>]
EnvStr(s) == [set |-> TRUE, s |-> s]

\* `${v}`: undefined renders as 'undefined'
Template(v) == IF v.set THEN v.s ELSE <<"undefined">>

\* process.env.X = v: the environment stores the string conversion of v
envAssign(v) == EnvStr(Template(v))

\* !v
Falsy(v) == ~v.set \/ v.s = <<>>

\* the organizations the callers of getJWTConnectionForOrg name
OrgIds == {<<"A">>, <<"B">>}

\* SF_SECRET_NAME and SF_PARAMETER_PREFIX of the Secrets Manager deployment
\* (SECRETS_MANAGER_ONLY.md: SF_SECRET_NAME is kept, SF_PARAMETER_PREFIX is
\* removed)
OriginalSecretName == EnvStr(<<"S">>)
OriginalParameterPrefix == EnvUnset

\* process.env when the process starts (fields sfSecretName and
\* sfParameterPrefix stand for SF_SECRET_NAME and SF_PARAMETER_PREFIX): the
\* Secrets Manager deployment and the environment-variable fallback
LambdaEnvs ==
  {[USE_AWS_SECRETS |-> "true", sfSecretName |-> OriginalSecretName,
    sfParameterPrefix |-> OriginalParameterPrefix],
   [USE_AWS_SECRETS |-> "false", sfSecretName |-> EnvUnset,
    sfParameterPrefix |-> EnvUnset]}

\* process.env of the packages that do not read it
NoEnv ==
  [USE_AWS_SECRETS |-> "false", sfSecretName |-> EnvUnset,
   sfParameterPrefix |-> EnvUnset]

\* the secrets stored in Secrets Manager (the descriptor each holds): the
\* default one and the one of org A; org B has none
SecretNames == {<<"S">>, <<"S", "-", "A">>}
Secret(name) == IF name = <<"S">> THEN 3 ELSE 1

\* what getCompleteSecretFromSecretsManager can end with for a secret name:
\* the secret, or the wrapped error of a failed or unusable answer
SecretResponses(secretName) ==
  {[ok |-> FALSE, message |-> <<"Secrets Manager error: ", secretName>>]}
  \cup (IF secretName \in SecretNames
        THEN {[ok |-> TRUE, config |-> Secret(secretName)]}
        ELSE {})

\* SF_CLIENT_ID, SF_PRIVATE_KEY, SF_USERNAME, SF_INSTANCE_URL of the fallback
\* deployment, and the SF_*_<orgId> variables (org B has none)
EnvConfig == 3
OrgEnvConfig(orgId) == IF orgId = <<"A">> THEN 1 ELSE 0

\* getAutoSalesforceConfig() -> getSalesforceConfig(useAwsSecrets) up to its
\* first await: the secret name is read from process.env before the request
\* is sent
getSalesforceConfig(e) ==
  IF e.USE_AWS_SECRETS = "true"
  THEN IF Falsy(e.sfSecretName)
       THEN [kind |-> "settled", ok |-> FALSE, secretName |-> <<>>,
             message |-> <<"SF_SECRET_NAME environment variable is required when using AWS secrets">>]
       ELSE [kind |-> "request", secretName |-> e.sfSecretName.s]
  ELSE [kind |-> "settled", ok |-> TRUE, secretName |-> <<>>, config |-> EnvConfig]

\* getConnection(config) -> getAccessToken up to its first await, on the
\* token cache the caller sees
getConnectionStart(i, cache) ==
  LET config == JWTConfigs[i]
      cacheKey == generateCacheKey(config)
  IN IF cacheKey \in DOMAIN cache /\ isTokenValid(cache[cacheKey])
     THEN [kind |-> "settled", ok |-> TRUE, i |-> i, cacheKey |-> cacheKey,
           accessToken |-> cache[cacheKey].token]
     ELSE IF ~jwtSignAccepts(config.privateKey, jwtSignOptions.algorithm)
     THEN [kind |-> "settled", ok |-> FALSE, i |-> i, cacheKey |-> cacheKey,
           message |-> <<"secretOrPrivateKey must be an asymmetric key when using RS256">>]
     ELSE IF ~fetchAccepts(tokenUrl(config))
     THEN [kind |-> "settled", ok |-> FALSE, i |-> i, cacheKey |-> cacheKey,
           message |-> <<"Failed to parse URL">>]
     ELSE [kind |-> "request", i |-> i, cacheKey |-> cacheKey,
           payload |-> jwtPayload(config), mintedAt |-> now]

\* variant of errorResponse: the error is passed on with the status of the
\* upstream
errorResponse_BadGateway(fn, message) ==
  [op |-> fn, kind |-> "returned", statusCode |-> 502, success |-> FALSE,
   error |-> message]

\* the catch block of handler (500) and of healthCheck (503)
errorResponse(fn, message) ==
  [op |-> fn, kind |-> "returned",
   statusCode |-> IF fn = "handler" THEN 500 ELSE 503,
   success |-> FALSE, error |-> message]

\* how an invocation ends when one of its awaits throws: handler and
\* healthCheck catch and answer, getJWTConnectionForOrg rejects
failure(l, message) ==
  IF l.fn = "getJWTConnectionForOrg"
  THEN [op |-> l.fn, kind |-> "rejected", orgId |-> l.orgId, error |-> message,
        log |-> l.log]
  ELSE [op |-> errorResponse(l.fn, message).op,
        kind |-> errorResponse(l.fn, message).kind,
        statusCode |-> errorResponse(l.fn, message).statusCode,
        success |-> errorResponse(l.fn, message).success,
        error |-> errorResponse(l.fn, message).error,
        log |-> l.log]

\* the manager the handlers get from JWTConnectionManager.getInstance()
managerCache == IF instance = 0 THEN EmptyMap ELSE tokenCache

\* the invocation in slot p goes on after its configuration has been loaded
\* (lines 17-25 of handler, 127-130 of healthCheck, 116-117 of
\* getJWTConnectionForOrg): getInstance, clearExpiredTokens in handler only,
\* then getConnection up to its first await
connectWith(p, l, i) ==
  LET cache == IF l.fn = "handler"
               THEN clearExpiredTokens(managerCache, now)
               ELSE managerCache
      conn == getConnectionStart(i, cache)
      log == l.log
             \o <<"getInstance">>
             \o (IF l.fn = "handler" THEN <<"clearExpiredTokens">> ELSE <<>>)
             \o <<"getConnection">>
  IN /\ instance' = 1
     /\ tokenCache' = cache
     /\ conn.kind = "request" => acq < MaxAcq
     /\ acq' = IF conn.kind = "request" THEN acq + 1 ELSE acq
     /\ pc' = [pc EXCEPT ![p] = "conn"]
     /\ locals' = [locals EXCEPT ![p] =
                     [fn |-> l.fn, orgId |-> l.orgId, saved |-> l.saved,
                      load |-> l.load, conn |-> conn, n |-> acq + 1, log |-> log]]
     /\ ret' = NoRet

\* handler(event, context) up to its first await
handler(p) ==
  /\ pkg = "handler"
  /\ FreeSlot(p)
  /\ pc' = [pc EXCEPT ![p] = "config"]
  /\ locals' = [locals EXCEPT ![p] =
                  [fn |-> "handler", orgId |-> <<>>, saved |-> NoEnv,
                   load |-> getSalesforceConfig(env), log |-> <<>>]]
  /\ ret' = NoRet
  /\ UNCHANGED <<pkg, instance, now, tokenCache, connectionCache, acq, env>>

\* healthCheck(event, context) up to its first await
healthCheck(p) ==
  /\ pkg = "handler"
  /\ FreeSlot(p)
  /\ pc' = [pc EXCEPT ![p] = "config"]
  /\ locals' = [locals EXCEPT ![p] =
                  [fn |-> "healthCheck", orgId |-> <<>>, saved |-> NoEnv,
                   load |-> getSalesforceConfig(env), log |-> <<>>]]
  /\ ret' = NoRet
  /\ UNCHANGED <<pkg, instance, now, tokenCache, connectionCache, acq, env>>

\* process.env with SF_SECRET_NAME and SF_PARAMETER_PREFIX overridden for an
\* org (lines 96-97)
overrideEnv(e, orgId) ==
  [e EXCEPT !.sfSecretName = envAssign(EnvStr(Template(@) \o <<"-">> \o orgId)),
            !.sfParameterPrefix = envAssign(EnvStr(Template(@) \o <<"-">> \o orgId))]

\* the finally block (lines 103-104): the values read at lines 92-93 are
\* assigned back
restoreEnv(e, saved) ==
  [e EXCEPT !.sfSecretName = envAssign(saved.sfSecretName),
            !.sfParameterPrefix = envAssign(saved.sfParameterPrefix)]

\* getJWTConnectionForOrg(orgId) up to its first await: with USE_AWS_SECRETS
\* the environment is overridden and the configuration is requested; without
\* it the configuration is read from the SF_*_<orgId> variables (undefined
\* .replace throws when they are absent) and getConnection is called
getJWTConnectionForOrg(p, orgId) ==
  /\ pkg = "handler"
  /\ FreeSlot(p)
  /\ LET l == [fn |-> "getJWTConnectionForOrg", orgId |-> orgId, saved |-> env,
               load |-> getSalesforceConfig(overrideEnv(env, orgId)), log |-> <<>>]
     IN IF env.USE_AWS_SECRETS = "true"
        THEN /\ Len(overrideEnv(env, orgId).sfSecretName.s) <= MaxNameLen
             /\ Len(overrideEnv(env, orgId).sfParameterPrefix.s) <= MaxNameLen
             /\ env' = overrideEnv(env, orgId)
             /\ pc' = [pc EXCEPT ![p] = "config"]
             /\ locals' = [locals EXCEPT ![p] = l]
             /\ ret' = NoRet
             /\ UNCHANGED <<instance, tokenCache, acq>>
        ELSE IF OrgEnvConfig(orgId) = 0
        THEN /\ ret' = failure(l, <<"Cannot read properties of undefined (reading 'replace')">>)
             /\ UNCHANGED <<instance, tokenCache, acq, pc, locals, env>>
        ELSE /\ connectWith(p, l, OrgEnvConfig(orgId))
             /\ UNCHANGED env
  /\ UNCHANGED <<pkg, now, connectionCache>>

\* the awaited getAutoSalesforceConfig() of the invocation in slot p settles
\* with `response`; getJWTConnectionForOrg runs its finally block first
LambdaConfigDone(p, response) ==
  /\ pkg = "handler"
  /\ pc[p] = "config"
  /\ LET l == locals[p] IN
       /\ env' = IF l.fn = "getJWTConnectionForOrg"
                 THEN restoreEnv(env, l.saved)
                 ELSE env
       /\ IF ~response.ok
          THEN /\ ret' = failure(l, response.message)
               /\ pc' = [pc EXCEPT ![p] = "idle"]
               /\ locals' = [locals EXCEPT ![p] = NoLocals]
               /\ UNCHANGED <<instance, tokenCache, acq>>
          ELSE connectWith(p, l, response.config)
  /\ UNCHANGED <<pkg, now, connectionCache>>

\* the configuration load of slot p settles with one of its possible
\* outcomes
LambdaConfigLoaded(p) ==
  /\ pkg = "handler"
  /\ pc[p] = "config"
  /\ IF locals[p].load.kind = "request"
     THEN \E response \in SecretResponses(locals[p].load.secretName) :
            LambdaConfigDone(p, response)
     ELSE LambdaConfigDone(p, locals[p].load)

\* the awaited getConnection(config) of slot p settles: a token answer is
\* cached as in getAccessToken, then healthCheck reads the stats and answers,
\* getJWTConnectionForOrg resolves with the connection, and handler sends
\* its query
LambdaConnectionDone(p, response) ==
  /\ pkg = "handler"
  /\ pc[p] = "conn"
  /\ LET l == locals[p]
         c == l.conn
         token == IF c.kind = "request" THEN response.access_token ELSE c.accessToken
         cache == IF c.kind = "request"
                  THEN cacheToken(tokenCache, c.cacheKey, token)
                  ELSE tokenCache
         connection == jsforceConnection(JWTConfigs[c.i], token)
     IN IF ~response.ok
        THEN /\ ret' = failure(l, IF c.kind = "request"
                                  THEN exchangeError(response) ELSE c.message)
             /\ pc' = [pc EXCEPT ![p] = "idle"]
             /\ locals' = [locals EXCEPT ![p] = NoLocals]
             /\ UNCHANGED tokenCache
        ELSE /\ tokenCache' = cache
             /\ IF l.fn = "handler"
                THEN /\ pc' = [pc EXCEPT ![p] = "query"]
                     /\ locals' = [locals EXCEPT ![p] =
                                     [fn |-> l.fn, orgId |-> l.orgId, saved |-> l.saved,
                                      load |-> l.load, conn |-> c, n |-> l.n,
                                      connection |-> connection,
                                      log |-> l.log \o <<"query">>]]
                     /\ ret' = NoRet
                ELSE /\ pc' = [pc EXCEPT ![p] = "idle"]
                     /\ locals' = [locals EXCEPT ![p] = NoLocals]
                     /\ ret' = IF l.fn = "healthCheck"
                               THEN [op |-> l.fn, kind |-> "returned",
                                     statusCode |-> 200, success |-> TRUE,
                                     cacheStats |-> jwtGetCacheStats(cache, now),
                                     log |-> l.log \o <<"getCacheStats">>]
                               ELSE [op |-> l.fn, kind |-> "resolved",
                                     orgId |-> l.orgId, i |-> c.i,
                                     connection |-> connection, log |-> l.log]
  /\ UNCHANGED <<pkg, instance, now, connectionCache, acq, env>>

\* what the token endpoint answers to the n-th POST of the Lambda process:
\* a token or an error
TokenAnswers(n, payload, mintedAt) ==
  {r \in Responses(n, payload, mintedAt) : r.ok => r.access_token # Undefined}

\* the getConnection of slot p settles with one of its possible outcomes
LambdaConnectionReady(p) ==
  /\ pkg = "handler"
  /\ pc[p] = "conn"
  /\ IF locals[p].conn.kind = "request"
     THEN \E response \in TokenAnswers(locals[p].n, locals[p].conn.payload,
                                       locals[p].conn.mintedAt) :
            LambdaConnectionDone(p, response)
     ELSE LambdaConnectionDone(p, locals[p].conn)

\* what connection.query can end with
QueryOutcomes ==
  {[ok |-> TRUE, records |-> <<"Account">>],
   [ok |-> FALSE, message |-> <<"INVALID_SESSION_ID">>]}

\* the awaited connection.query of handler settles (lines 30-52): the stats
\* are read and the answer is 200, or the catch block answers
LambdaQueryDone(p, outcome) ==
  /\ pkg = "handler"
  /\ pc[p] = "query"
  /\ ret' = IF outcome.ok
            THEN [op |-> "handler", kind |-> "returned", statusCode |-> 200,
                  success |-> TRUE, data |-> outcome.records,
                  cacheStats |-> jwtGetCacheStats(tokenCache, now),
                  log |-> locals[p].log \o <<"getCacheStats">>]
            ELSE failure(locals[p], outcome.message)
  /\ pc' = [pc EXCEPT ![p] = "idle"]
  /\ locals' = [locals EXCEPT ![p] = NoLocals]
  /\ UNCHANGED <<pkg, instance, now, tokenCache, connectionCache, acq, env>>

\* Date.now() advances between the invocations of the Lambda process
LambdaTickClock ==
  /\ pkg = "handler"
  /\ \A p \in Procs : pc[p] = "idle"
  /\ now + JwtTickLong <= JwtMaxTime
  /\ now' = now + JwtTickLong
  /\ ret' = NoRet
  /\ UNCHANGED <<pkg, instance, tokenCache, connectionCache, pc, locals, acq, env>>

(* -------------------- automation/setup-jwt-flow.js -------------------- *)
\* waitForActivation: const maxAttempts = 10, sleep(120000) before the first
\* test, sleep(30000) between attempts
maxAttempts == 10
InitialWaitMs == 120000
RetryWaitMs == 30000

\* run() up to the first await of waitForActivation: connectToSalesforce,
\* generateKeyPair and createConnectedApp succeed, or one of them throws and
\* the catch block exits the process
SetupRun(ok) ==
  /\ pkg = "setup"
  /\ pc[1] = "idle"
  /\ pc' = [pc EXCEPT ![1] = IF ok THEN "initialSleep" ELSE "exit"]
  /\ locals' = [locals EXCEPT ![1] =
                  [attempts |-> 0, tests |-> 0, sleeps |-> 0, sleptMs |-> 0,
                   result |-> IF ok THEN "waiting" ELSE "setup failed"]]
  /\ UNCHANGED <<pkg, instance, now, tokenCache, connectionCache, acq, ret, env>>

\* the initial sleep(120000) is over: the loop is entered and testJWTToken
\* is called
SetupInitialSleepDone ==
  /\ pkg = "setup"
  /\ pc[1] = "initialSleep"
  /\ pc' = [pc EXCEPT ![1] = IF 0 < maxAttempts
                             THEN "testJWTToken" ELSE "generateEnvironmentConfig"]
  /\ locals' = [locals EXCEPT ![1].sleptMs = @ + InitialWaitMs,
                              ![1].result = IF 0 < maxAttempts THEN @ ELSE "warned"]
  /\ UNCHANGED <<pkg, instance, now, tokenCache, connectionCache, acq, ret, env>>

\* variant of SetupTestDone: every failed attempt is followed by a sleep
SetupTestDone_AlwaysSleep(ok) ==
  /\ pkg = "setup"
  /\ pc[1] = "testJWTToken"
  /\ LET l == locals[1] IN
       IF ok
       THEN /\ pc' = [pc EXCEPT ![1] = "generateEnvironmentConfig"]
            /\ locals' = [locals EXCEPT ![1].tests = @ + 1, ![1].result = "active"]
       ELSE /\ pc' = [pc EXCEPT ![1] = "sleep"]
            /\ locals' = [locals EXCEPT ![1].tests = @ + 1,
                                        ![1].attempts = @ + 1]
  /\ UNCHANGED <<pkg, instance, now, tokenCache, connectionCache, acq, ret, env>>

\* the awaited testJWTToken() settles: on success waitForActivation returns;
\* on failure attempts is incremented and, if attempts are left, sleep(30000)
\* is awaited; after the last failure the loop ends, the warning is logged
\* and waitForActivation returns to run()
SetupTestDone(ok) ==
  /\ pkg = "setup"
  /\ pc[1] = "testJWTToken"
  /\ LET l == locals[1] IN
       IF ok
       THEN /\ pc' = [pc EXCEPT ![1] = "generateEnvironmentConfig"]
            /\ locals' = [locals EXCEPT ![1].tests = @ + 1, ![1].result = "active"]
       ELSE IF l.attempts + 1 < maxAttempts
       THEN /\ pc' = [pc EXCEPT ![1] = "sleep"]
            /\ locals' = [locals EXCEPT ![1].tests = @ + 1,
                                        ![1].attempts = @ + 1]
       ELSE /\ pc' = [pc EXCEPT ![1] = "generateEnvironmentConfig"]
            /\ locals' = [locals EXCEPT ![1].tests = @ + 1,
                                        ![1].attempts = @ + 1,
                                        ![1].result = "warned"]
  /\ UNCHANGED <<pkg, instance, now, tokenCache, connectionCache, acq, ret, env>>

\* the sleep(30000) between two attempts is over: the loop condition holds
\* and testJWTToken is called again
SetupSleepDone ==
  /\ pkg = "setup"
  /\ pc[1] = "sleep"
  /\ pc' = [pc EXCEPT ![1] = IF locals[1].attempts < maxAttempts
                             THEN "testJWTToken" ELSE "generateEnvironmentConfig"]
  /\ locals' = [locals EXCEPT ![1].sleeps = @ + 1,
                              ![1].sleptMs = @ + RetryWaitMs,
                              ![1].result = IF locals[1].attempts < maxAttempts
                                            THEN @ ELSE "warned"]
  /\ UNCHANGED <<pkg, instance, now, tokenCache, connectionCache, acq, ret, env>>

\* generateEnvironmentConfig() settles: run() logs the completion, or the
\* catch block exits the process
SetupGenerateEnvironmentConfig(ok) ==
  /\ pkg = "setup"
  /\ pc[1] = "generateEnvironmentConfig"
  /\ pc' = [pc EXCEPT ![1] = IF ok THEN "completed" ELSE "exit"]
  /\ UNCHANGED <<pkg, instance, now, tokenCache, connectionCache, locals, acq, ret, env>>

(* ----------------------------- the process ---------------------------- *)
\* a process hosts one of the packages, the Lambda entry points or the setup
\* script; no manager exists until the first getInstance()
Init ==
  /\ pkg \in {"jwt", "oauth", "handler", "setup"}
  /\ env \in (IF pkg = "handler" THEN LambdaEnvs ELSE {NoEnv})
  /\ instance = 0
  /\ now = StartMs
  /\ tokenCache = EmptyMap
  /\ connectionCache = EmptyMap
  /\ pc = [p \in Procs |-> "idle"]
  /\ locals = [p \in Procs |-> NoLocals]
  /\ acq = 0
  /\ ret = NoRet

Next ==
  \/ JwtGetInstance
  \/ OAuthGetInstance
  \/ \E p \in Procs, i \in DOMAIN JWTConfigs : JwtGetConnection(p, i)
  \/ \E p \in Procs : JwtFetchResolves(p)
  \/ JwtClearExpiredTokens
  \/ JwtClearAllTokens
  \/ JwtGetCacheStats
  \/ \E step \in {JwtTickShort, JwtTickLong} : JwtTickClock(step)
  \/ \E p \in Procs, i \in DOMAIN OAuthInputs : OAuthGetConnection(p, i)
  \/ \E p \in Procs : OAuthConnectionCreated(p)
  \/ OAuthClearExpiredConnections
  \/ OAuthClearAllConnections
  \/ OAuthGetCacheStats
  \/ \E step \in {5 * OAuthTick, 6 * OAuthTick} : OAuthTickClock(step)
  \/ \E p \in Procs : handler(p)
  \/ \E p \in Procs : healthCheck(p)
  \/ \E p \in Procs, orgId \in OrgIds : getJWTConnectionForOrg(p, orgId)
  \/ \E p \in Procs : LambdaConfigLoaded(p)
  \/ \E p \in Procs : LambdaConnectionReady(p)
  \/ \E p \in Procs, outcome \in QueryOutcomes : LambdaQueryDone(p, outcome)
  \/ LambdaTickClock
  \/ \E ok \in BOOLEAN : SetupRun(ok)
  \/ SetupInitialSleepDone
  \/ \E ok \in BOOLEAN : SetupTestDone(ok)
  \/ SetupSleepDone
  \/ \E ok \in BOOLEAN : SetupGenerateEnvironmentConfig(ok)

Spec == Init /\ [][Next]_vars

\* a process that hosts the jwt-auth package
JwtInit == Init /\ pkg = "jwt"

\* the operations of the jwt-auth package
JwtNext ==
  \/ JwtGetInstance
  \/ \E p \in Procs, i \in DOMAIN JWTConfigs : JwtGetConnection(p, i)
  \/ \E p \in Procs : JwtFetchResolves(p)
  \/ JwtClearExpiredTokens
  \/ JwtClearAllTokens
  \/ JwtGetCacheStats
  \/ \E step \in {JwtTickShort, JwtTickLong} : JwtTickClock(step)

\* the behaviours of the jwt-auth package in which every token-endpoint
\* request gets its answer: the event loop resumes a call whose awaited fetch
\* has resolved
LiveSpec ==
  JwtInit /\ [][JwtNext]_vars /\ \A p \in Procs : WF_vars(JwtFetchResolves(p))

(* ------------------------------ properties ---------------------------- *)
IsJwtCall == pkg = "jwt" /\ ret.op = "getConnection"

JwtEntryLive(k) == k \in DOMAIN tokenCache /\ now < tokenCache[k].expiresAt

AllIdle == \A p \in Procs : pc[p] = "idle"

\* C1: while a stored entry is within its window (now < expiresAt) a
\* getConnection for its key returns the entry's token and starts no
\* acquisition: a call that went to the token endpoint found no live entry
C1_HitWithinWindow ==
  IsJwtCall =>
    /\ ret.kind = "pending" => ~JwtEntryLive(ret.key)
    /\ ret.kind = "hit" =>
         /\ ret.key \in DOMAIN tokenCache
         /\ ret.accessToken = tokenCache[ret.key].token

\* a second call for a descriptor is served from the cache after one
\* acquisition
C1_Witness ==
  /\ IsJwtCall
  /\ ret.kind = "hit"
  /\ ret.accessToken # Undefined
  /\ acq = 1

\* C2: a getConnection made at or past the boundary of the stored entry
\* (with a descriptor that has a signing key and an endpoint)
\* posts exactly one new exchange and leaves the entry alone until the
\* exchange resolves; a resolved, successful exchange posts nothing more and
\* replaces the entry by the new token with a new boundary
C2_ReacquireAfterBoundary ==
  [][ /\ \A p \in Procs, i \in DOMAIN JWTConfigs :
           LET k == generateCacheKey(JWTConfigs[i]) IN
             ( /\ k \in DOMAIN tokenCache
               /\ now >= tokenCache[k].expiresAt
               /\ JWTConfigs[i].privateKey = "rsa"
               /\ JWTConfigs[i].instanceUrl # ""
               /\ JwtGetConnection(p, i) )
             => /\ acq' = acq + 1
                /\ pc'[p] = "fetch"
                /\ ret'.kind = "pending"
                /\ tokenCache' = tokenCache
      /\ \A p \in Procs :
           (pc[p] = "fetch" /\ JwtFetchResolves(p) /\ ret'.kind = "miss")
             => /\ acq' = acq
                /\ locals[p].cacheKey \in DOMAIN tokenCache'
                /\ tokenCache'[locals[p].cacheKey] =
                     [token |-> ret'.accessToken,
                      expiresAt |-> now + TOKEN_LIFETIME - CACHE_BUFFER]
                /\ ret'.accessToken \in {Undefined,
                      AccessToken(locals[p].n, locals[p].payload, locals[p].mintedAt)}
    ]_vars

\* the second acquisition of a descriptor has replaced the entry of the first
C2_Witness ==
  /\ IsJwtCall
  /\ ret.kind = "miss"
  /\ AllIdle
  /\ acq = 2
  /\ ret.accessToken # Undefined
  /\ ret.accessToken.sub = JWTConfigs[ret.i].username
  /\ tokenCache[ret.key].token.n = 2
  /\ tokenCache[ret.key].token.mintedAt >= StartMs + TOKEN_LIFETIME - CACHE_BUFFER

\* C3: a token returned on the hit path is returned strictly before the
\* instant its assertion was minted plus TOKEN_LIFETIME
C3_NeverServesExpired ==
  (IsJwtCall /\ ret.kind = "hit" /\ ret.accessToken # Undefined)
    => now < ret.accessToken.mintedAt + TOKEN_LIFETIME

\* C4: whenever an entry of the token cache is created or changed, its
\* boundary is the time of that store plus TOKEN_LIFETIME minus CACHE_BUFFER,
\* whatever the issuer answered; no step changes an entry otherwise
C4_BoundaryFromStoreTime ==
  [][ \A k \in DOMAIN tokenCache' :
        (k \notin DOMAIN tokenCache \/ tokenCache'[k] # tokenCache[k])
          => tokenCache'[k].expiresAt = now + TOKEN_LIFETIME - CACHE_BUFFER
    ]_vars

\* an entry stored after an exchange that took time: its boundary is counted
\* from the store, 150 s ahead
C4_Witness ==
  /\ IsJwtCall
  /\ ret.kind = "miss"
  /\ ret.accessToken # Undefined
  /\ ret.accessToken.mintedAt < now
  /\ tokenCache[ret.key].expiresAt = now + 150000

JwtPrincipal(i) == <<JWTConfigs[i].clientId, JWTConfigs[i].username>>

\* C5: calls for descriptors with different (clientId, username) use
\* different cache keys, and a hit returns a token issued to the caller's
\* own (clientId, username)
C5_JwtKeyInjective ==
  pkg = "jwt" =>
    /\ \A p, q \in Procs :
         ( /\ pc[p] = "fetch" /\ pc[q] = "fetch"
           /\ JwtPrincipal(locals[p].i) # JwtPrincipal(locals[q].i) )
         => locals[p].cacheKey # locals[q].cacheKey
    /\ (ret.op = "getConnection" /\ ret.kind = "hit" /\ ret.accessToken # Undefined)
         => <<ret.accessToken.iss, ret.accessToken.sub>> = JwtPrincipal(ret.i)

OAuthDerived(i) == OAuthInputs[i].cacheKey = <<>>

OAuthPrincipal(i) == <<OAuthInputs[i].config.clientId, OAuthInputs[i].refreshToken>>

\* C6: calls that derive their key from different (clientId, refreshToken)
\* pairs use different cache keys, and a hit under a derived key returns a
\* connection created for the caller's own (clientId, refreshToken)
C6_OAuthKeyInjective ==
  pkg = "oauth" =>
    /\ \A p, q \in Procs :
         ( /\ pc[p] = "created" /\ pc[q] = "created"
           /\ OAuthDerived(locals[p].i) /\ OAuthDerived(locals[q].i)
           /\ OAuthPrincipal(locals[p].i) # OAuthPrincipal(locals[q].i) )
         => locals[p].cacheKey # locals[q].cacheKey
    /\ (ret.op = "getConnection" /\ ret.kind = "hit" /\ OAuthDerived(ret.i))
         => <<ret.connection.oauth2.clientId, ret.connection.refreshToken>>
              = OAuthPrincipal(ret.i)

\* C7: every call made for the same descriptor computes the same cache key,
\* whatever the clock and the cache were when it was made
C7_KeyDeterministic ==
  pkg \in {"jwt", "oauth"} =>
    /\ \A p, q \in Procs :
         (pc[p] # "idle" /\ pc[q] # "idle" /\ locals[p].i = locals[q].i)
           => locals[p].cacheKey = locals[q].cacheKey
    /\ \A p \in Procs :
         (pc[p] # "idle" /\ ret.op = "getConnection" /\ ret.i = locals[p].i)
           => ret.key = locals[p].cacheKey

\* a call made on an empty cache is still in flight when a later call for the
\* same descriptor, at a later time, finds the key in the cache
C7_Witness ==
  /\ pkg = "jwt"
  /\ \E p \in Procs :
       /\ pc[p] = "fetch"
       /\ ret.op = "getConnection"
       /\ ret.kind = "hit"
       /\ ret.i = locals[p].i
       /\ locals[p].mintedAt < now

JwtLive(cache, t) == {k \in DOMAIN cache : t < cache[k].expiresAt}

OAuthLive(cache, t) == {k \in DOMAIN cache : t - cache[k].createdAt < CACHE_TTL}

\* C8: clearExpiredTokens / clearExpiredConnections keeps exactly the
\* entries whose boundary has not passed, unchanged, and removes the others;
\* the stats at the same instant then show no expired entry, the valid
\* count unchanged, and total equal to the valid count of before
C8_ClearExpiredExact ==
  [][ /\ JwtClearExpiredTokens =>
           LET old == jwtGetCacheStats(tokenCache, now) IN
             /\ tokenCache' = [k \in JwtLive(tokenCache, now) |-> tokenCache[k]]
             /\ jwtGetCacheStats(tokenCache', now') =
                  [total |-> old.valid, valid |-> old.valid, expired |-> 0]
      /\ OAuthClearExpiredConnections =>
           LET old == oauthGetCacheStats(connectionCache, now) IN
             /\ connectionCache' =
                  [k \in OAuthLive(connectionCache, now) |-> connectionCache[k]]
             /\ oauthGetCacheStats(connectionCache', now') =
                  [total |-> old.valid, valid |-> old.valid, expired |-> 0]
    ]_vars

\* a clearExpiredTokens that removed an entry at its boundary instant and
\* kept a valid one
C8_Witness ==
  /\ pkg = "jwt"
  /\ ret.op = "clearExpired"
  /\ ret.logged # {}
  /\ tokenCache # EmptyMap
  /\ now = StartMs + TOKEN_LIFETIME - CACHE_BUFFER

ZeroStats == [total |-> 0, valid |-> 0, expired |-> 0]

\* C9: clearAllTokens / clearAllConnections leaves an empty cache whatever
\* it held, and a getCacheStats that runs next returns {0, 0, 0}
C9_ClearAllEmpties ==
  [][ /\ JwtClearAllTokens =>
           /\ tokenCache' = EmptyMap
           /\ jwtGetCacheStats(tokenCache', now') = ZeroStats
      /\ OAuthClearAllConnections =>
           /\ connectionCache' = EmptyMap
           /\ oauthGetCacheStats(connectionCache', now') = ZeroStats
      /\ (ret.op = "clearAll" /\ ret'.op = "getCacheStats") => ret'.stats = ZeroStats
      /\ (ret'.op = "clearAll") => (tokenCache' = EmptyMap /\ connectionCache' = EmptyMap)
    ]_vars

\* a clearAllTokens that dropped a valid and an expired entry
C9_Witness ==
  /\ pkg = "jwt"
  /\ ret.op = "clearAll"
  /\ ret.dropped.valid >= 1
  /\ ret.dropped.expired >= 1
  /\ tokenCache = EmptyMap

\* C10: getCacheStats leaves the cache as it was, expired entries included,
\* and returns the number of keys, of entries whose boundary is ahead of the
\* current time, and of the others
C10_StatsReadOnly ==
  [][ /\ JwtGetCacheStats =>
           /\ tokenCache' = tokenCache
           /\ ret'.stats =
                [total |-> Cardinality(DOMAIN tokenCache),
                 valid |-> Cardinality(JwtLive(tokenCache, now)),
                 expired |-> Cardinality((DOMAIN tokenCache) \ JwtLive(tokenCache, now))]
      /\ OAuthGetCacheStats =>
           /\ connectionCache' = connectionCache
           /\ ret'.stats =
                [total |-> Cardinality(DOMAIN connectionCache),
                 valid |-> Cardinality(OAuthLive(connectionCache, now)),
                 expired |-> Cardinality((DOMAIN connectionCache)
                                           \ OAuthLive(connectionCache, now))]
    ]_vars

\* a getCacheStats that counted an expired entry, which is still in the cache
C10_Witness ==
  /\ pkg = "jwt"
  /\ ret.op = "getCacheStats"
  /\ ret.stats.expired >= 1
  /\ ret.stats.valid >= 1
  /\ Cardinality(DOMAIN tokenCache) = 2
\* C11: a token exchange that fails leaves the cache map exactly as it was:
\* no entry is created for the key and an expired entry of the key is
\* neither replaced nor modified
C11_FailedExchangeLeavesCache ==
  [][\A p \in Procs :
        (/\ pkg = "jwt"
         /\ pc[p] = "fetch"
         /\ pc'[p] = "idle"
         /\ ret'.op = "getConnection"
         /\ ret'.kind = "error")
        => tokenCache' = tokenCache]_vars

\* a call has just failed at the exchange while the expired entry of its key
\* is still in the cache
C11_Witness ==
  /\ IsJwtCall
  /\ ret.kind = "error"
  /\ ret.thrownBy = "generateJWTToken"
  /\ ret.key \in DOMAIN tokenCache
  /\ now >= tokenCache[ret.key].expiresAt

\* C12: a non-success answer of the token endpoint makes getConnection fail
\* with an error whose message carries the HTTP status and the raw body, and
\* no cache entry is created
C12_ErrorCarriesStatusAndBody ==
  [][\A p \in Procs :
        (pkg = "jwt" /\ pc[p] = "fetch") =>
          \A response \in Responses(locals[p].n, locals[p].payload,
                                    locals[p].mintedAt) :
            (~response.ok /\ JwtFetchDone(p, response)) =>
              /\ ret'.kind = "error"
              /\ ret'.message[2] = response.status
              /\ ret'.message[4] = response.text
              /\ DOMAIN tokenCache' = DOMAIN tokenCache]_vars

\* a call has just failed with status 400 and body "invalid_grant" and its
\* key has no entry
C12_Witness ==
  /\ IsJwtCall
  /\ ret.kind = "error"
  /\ ret.thrownBy = "generateJWTToken"
  /\ ret.message[2] = 400
  /\ ret.message[4] = "invalid_grant"
  /\ ret.key \notin DOMAIN tokenCache
\* C13: a success answer without an access_token field makes getConnection
\* fail and stores nothing: no call returns a client whose token is absent
\* and the cache never holds an entry whose token is absent
C13_NoUndefinedToken ==
  pkg = "jwt" =>
    /\ \A k \in DOMAIN tokenCache : tokenCache[k].token # Undefined
    /\ (ret.op = "getConnection" /\ ret.kind \in {"hit", "miss"})
         => ret.accessToken # Undefined
\* C14: no local retry: a step makes one POST exactly when it takes a call
\* into the miss path, that POST goes to <instanceUrl>/services/oauth2/token,
\* and the step that receives the answer ends the call without another POST,
\* with the failure as its outcome when the exchange failed
C14_OnePostPerMiss ==
  [][pkg = "jwt" =>
       /\ acq' = acq + Cardinality({q \in Procs : pc[q] = "idle" /\ pc'[q] = "fetch"})
       /\ \A p \in Procs :
            /\ (pc[p] = "idle" /\ pc'[p] = "fetch") =>
                 locals'[p].url = <<JWTConfigs[locals'[p].i].instanceUrl,
                                    "/services/oauth2/token">>
            /\ pc[p] = "fetch" =>
                 \A response \in Responses(locals[p].n, locals[p].payload,
                                           locals[p].mintedAt) :
                   JwtFetchDone(p, response) =>
                     /\ pc'[p] = "idle"
                     /\ ~response.ok =>
                          (ret'.kind = "error" /\ ret'.i = locals[p].i)]_vars

\* the only call made so far has failed at the exchange after its one POST
\* and nothing is in flight
C14_Witness ==
  /\ IsJwtCall
  /\ ret.kind = "error"
  /\ ret.thrownBy = "generateJWTToken"
  /\ acq = 1
  /\ AllIdle
\* C15: the miss path has no mutual exclusion: calls in flight at the same
\* time each hold an acquisition of their own, also when their keys are
\* equal, and a call that completes writes its own result over whatever the
\* key holds, so the entry holds the result of the call that stored last
C15_LastWriterWins ==
  /\ \A p, q \in Procs :
        (p # q /\ pc[p] = "fetch" /\ pc[q] = "fetch") => locals[p].n # locals[q].n
  /\ \A p, q \in Procs :
        (p # q /\ pc[p] = "created" /\ pc[q] = "created")
          => locals[p].connection.n # locals[q].connection.n
  /\ (ret.op = "getConnection" /\ ret.kind = "miss") =>
        IF pkg = "jwt"
        THEN /\ ret.key \in DOMAIN tokenCache
             /\ tokenCache[ret.key].token = ret.accessToken
        ELSE /\ ret.key \in DOMAIN connectionCache
             /\ connectionCache[ret.key].connection = ret.connection

\* two calls for one key both missed and both posted; the later one has
\* stored its token, and the earlier one, still in flight, will overwrite it
C15_Witness ==
  /\ pkg = "jwt"
  /\ \E p \in Procs :
        /\ pc[p] = "fetch"
        /\ locals[p].cacheKey \in DOMAIN tokenCache
        /\ tokenCache[locals[p].cacheKey].token # Undefined
        /\ tokenCache[locals[p].cacheKey].token.n > locals[p].n
        /\ tokenCache[locals[p].cacheKey].token.mintedAt = locals[p].mintedAt
\* C16: the cache holds one record per key; the store of a successful
\* acquisition replaces the record of its key (or adds it) and changes no
\* record under any other key
C16_StoreTouchesOnlyItsKey ==
  [][\A p \in Procs :
        (/\ pc[p] \in {"fetch", "created"}
         /\ pc'[p] = "idle"
         /\ ret'.op = "getConnection"
         /\ ret'.kind = "miss")
        => LET k == locals[p].cacheKey IN
             IF pkg = "jwt"
             THEN /\ DOMAIN tokenCache' = DOMAIN tokenCache \cup {k}
                  /\ \A j \in DOMAIN tokenCache \ {k} : tokenCache'[j] = tokenCache[j]
                  /\ tokenCache'[k] =
                       [token |-> ret'.accessToken,
                        expiresAt |-> now + TOKEN_LIFETIME - CACHE_BUFFER]
             ELSE /\ DOMAIN connectionCache' = DOMAIN connectionCache \cup {k}
                  /\ \A j \in DOMAIN connectionCache \ {k} :
                       connectionCache'[j] = connectionCache[j]
                  /\ connectionCache'[k] =
                       [connection |-> ret'.connection, createdAt |-> now]]_vars

\* a call has just stored its token while another key has an entry
C16_Witness ==
  /\ IsJwtCall
  /\ ret.kind = "miss"
  /\ \E j \in DOMAIN tokenCache : j # ret.key
\* C17: while the entry of a key is valid, every getConnection for the key,
\* whatever else is in flight, is served the token the entry holds, takes no
\* slot into an acquisition, posts nothing and leaves the cache as it is (so
\* calls served from one entry get one and the same token)
C17_ConcurrentHitsShareToken ==
  [][\A p \in Procs, i \in DOMAIN JWTConfigs :
        LET k == generateCacheKey(JWTConfigs[i]) IN
          (pkg = "jwt" /\ JwtEntryLive(k) /\ JwtGetConnection(p, i))
            => /\ ret'.kind = "hit"
               /\ ret'.accessToken = tokenCache[k].token
               /\ acq' = acq
               /\ pc' = pc
               /\ tokenCache' = tokenCache]_vars

\* a call is served from the entry of its key while an earlier call for the
\* same key is still in flight
C17_Witness ==
  /\ IsJwtCall
  /\ ret.kind = "hit"
  /\ \E p \in Procs : pc[p] = "fetch" /\ locals[p].cacheKey = ret.key
\* C18: getInstance is a lazy process-wide singleton: the first call creates
\* the manager with an empty cache, every later call returns the manager that
\* exists with its cache as it is (what one handle stored, the next one
\* sees), and a manager once created is never replaced or unset
C18_LazySingleton ==
  [][/\ instance = 1 => instance' = 1
     /\ ret'.op = "getInstance" =>
          IF instance = 0
          THEN /\ ret'.created
               /\ instance' = 1
               /\ tokenCache' = EmptyMap
               /\ connectionCache' = EmptyMap
          ELSE /\ ~ret'.created
               /\ tokenCache' = tokenCache
               /\ connectionCache' = connectionCache]_vars

\* getInstance has returned the existing manager, whose cache holds the
\* entry stored through an earlier handle
C18_Witness ==
  /\ ret.op = "getInstance"
  /\ ~ret.created
  /\ instance = 1
  /\ tokenCache # EmptyMap
\* C19: a signing failure never reaches the network: a getConnection that
\* finds no valid entry and whose key cannot sign RS256 fails at jwt.sign,
\* with no POST (the acquisition count is unchanged), no call left in flight
\* and the cache unchanged
C19_SignFailureBeforeNetwork ==
  [][\A p \in Procs, i \in DOMAIN JWTConfigs :
        LET k == generateCacheKey(JWTConfigs[i]) IN
          (/\ pkg = "jwt"
           /\ JWTConfigs[i].privateKey # "rsa"
           /\ ~JwtEntryLive(k)
           /\ JwtGetConnection(p, i))
            => /\ ret'.kind = "error"
               /\ ret'.thrownBy = "jwt.sign"
               /\ acq' = acq
               /\ pc' = pc
               /\ tokenCache' = tokenCache]_vars

\* a call has just failed at jwt.sign; the expired entry of its key and the
\* one acquisition made before are all there is
C19_Witness ==
  /\ IsJwtCall
  /\ ret.kind = "error"
  /\ ret.thrownBy = "jwt.sign"
  /\ acq = 1
  /\ AllIdle
  /\ ret.key \in DOMAIN tokenCache
  /\ now >= tokenCache[ret.key].expiresAt
\* C20: a getConnection whose descriptor has no usable instanceUrl fails (at
\* once, with a configuration error): it never returns a client and never
\* goes on to an exchange
C20_BadEndpointRejected ==
  (IsJwtCall /\ ~fetchAccepts(tokenUrl(JWTConfigs[ret.i]))) => ret.kind = "error"
\* C21: every client getConnection returns is built from the token
\* getAccessToken produced for the key (the entry's token on a hit, the new
\* token on a miss), the descriptor's instanceUrl and API version 58.0; on a
\* miss the client's token is the token that call stored
C21_ClientFromTokenAndDescriptor ==
  (IsJwtCall /\ ret.kind \in {"hit", "miss"}) =>
    /\ ret.serverUrl = JWTConfigs[ret.i].instanceUrl
    /\ ret.version = "58.0"
    /\ ret.key = generateCacheKey(JWTConfigs[ret.i])
    /\ ret.key \in DOMAIN tokenCache
    /\ ret.accessToken = tokenCache[ret.key].token

\* a call with the audience override has just acquired and stored a token
\* and returned its client
C21_Witness ==
  /\ IsJwtCall
  /\ ret.kind = "miss"
  /\ ret.accessToken # Undefined
  /\ JWTConfigs[ret.i].audience # ""
  /\ ret.serverUrl = "https://x"
IsOAuthCall == pkg = "oauth" /\ ret.op = "getConnection"

\* C22: the OAuth manager reuses the cached connection of a key exactly
\* while fewer than 30 minutes have passed since the entry's createdAt: a
\* call served from the cache found an entry younger than 30 minutes, a call
\* that went on to create a connection found none or one aged 30 minutes or
\* more, and a created connection is stored as the key's entry
C22_ReuseWithinThirtyMinutes ==
  IsOAuthCall =>
    /\ ret.kind = "hit" =>
         /\ ret.key \in DOMAIN connectionCache
         /\ now - connectionCache[ret.key].createdAt < 30 * 60 * 1000
         /\ ret.connection = connectionCache[ret.key].connection
    /\ ret.kind = "pending" =>
         \/ ret.key \notin DOMAIN connectionCache
         \/ now - connectionCache[ret.key].createdAt >= 30 * 60 * 1000
    /\ ret.kind = "miss" =>
         /\ ret.key \in DOMAIN connectionCache
         /\ connectionCache[ret.key] = [connection |-> ret.connection, createdAt |-> now]

\* a call made exactly 30 minutes after the entry of its key was created has
\* gone on to create a new connection
C22_Witness ==
  /\ IsOAuthCall
  /\ ret.kind = "pending"
  /\ ret.key \in DOMAIN connectionCache
  /\ now - connectionCache[ret.key].createdAt = 30 * 60 * 1000
\* C23: the OAuth manager keeps a 5-minute buffer: a cached connection is
\* not reused once the current time is within 5 minutes of the entry's
\* expiry (createdAt + 30 minutes)
C23_FiveMinuteBuffer ==
  (IsOAuthCall /\ ret.kind = "hit") =>
    now < connectionCache[ret.key].createdAt + 30 * 60 * 1000 - 5 * 60 * 1000

\* C24: calls with distinct explicit cache keys use separate entries: a call
\* with an explicit key works on the entry of that key, the connection it
\* returns is the one that entry holds, and no entry under another key holds
\* that connection, also when config and refreshToken are the same
C24_ExplicitKeysSeparate ==
  (IsOAuthCall /\ OAuthInputs[ret.i].cacheKey # <<>>) =>
    /\ ret.key = OAuthInputs[ret.i].cacheKey
    /\ ret.kind \in {"hit", "miss"} =>
         /\ ret.key \in DOMAIN connectionCache
         /\ connectionCache[ret.key].connection = ret.connection
         /\ \A j \in DOMAIN connectionCache \ {ret.key} :
              connectionCache[j].connection.n # ret.connection.n

\* a call with explicit key 'e' is served the connection stored under 'e'
\* while key 'd' holds another connection for the same config and
\* refreshToken
C24_Witness ==
  /\ IsOAuthCall
  /\ ret.kind = "hit"
  /\ ret.key = <<"e">>
  /\ <<"d">> \in DOMAIN connectionCache
  /\ connectionCache[<<"d">>].connection.n # ret.connection.n
  /\ OAuthInputs[4].config = OAuthInputs[5].config
  /\ OAuthInputs[4].refreshToken = OAuthInputs[5].refreshToken
\* C25: the maintenance operations never fail: whatever is in flight, on a
\* cache with nothing expired clearExpiredTokens and getCacheStats return and
\* leave the cache as it is, and on an empty cache clearAllTokens returns
\* with the cache still empty and getCacheStats returns {0, 0, 0}
C25_MaintenanceNeverFails ==
  (pkg = "jwt" /\ instance = 1) =>
    /\ JwtLive(tokenCache, now) = DOMAIN tokenCache =>
         /\ ENABLED (/\ JwtClearExpiredTokens
                     /\ tokenCache' = tokenCache
                     /\ ret'.logged = {})
         /\ ENABLED (/\ JwtGetCacheStats
                     /\ tokenCache' = tokenCache
                     /\ ret'.stats.expired = 0)
    /\ tokenCache = EmptyMap =>
         /\ ENABLED (JwtClearAllTokens /\ tokenCache' = EmptyMap)
         /\ ENABLED (/\ JwtGetCacheStats
                     /\ tokenCache' = EmptyMap
                     /\ ret'.stats = ZeroStats)

\* clearExpiredTokens has just returned on an empty cache, having removed
\* nothing, while a call is in flight
C25_Witness ==
  /\ pkg = "jwt"
  /\ ret.op = "clearExpired"
  /\ ret.logged = {}
  /\ tokenCache = EmptyMap
  /\ ~AllIdle
\* C26: a suspended acquisition blocks only its own invocation: while a call
\* waits for the token endpoint its answer can be handled whatever else
\* waits, the stats and clear operations can run, and a further
\* getConnection for any descriptor (the same key included) can start; and
\* every getConnection whose request gets an answer terminates
C26_HungCallBlocksOnlyItself ==
  /\ [](pkg = "jwt" =>
          \A p \in Procs :
            pc[p] = "fetch" =>
              /\ ENABLED JwtFetchResolves(p)
              /\ ENABLED JwtGetCacheStats
              /\ ENABLED JwtClearExpiredTokens
              /\ ENABLED JwtClearAllTokens
              /\ \A q \in Procs :
                   (FreeSlot(q) /\ acq < MaxAcq) =>
                     \A i \in DOMAIN JWTConfigs : ENABLED JwtGetConnection(q, i))
  /\ \A p \in Procs : (pc[p] = "fetch") ~> (pc[p] = "idle")

\* two calls for one key wait for the token endpoint at the same time
C26_Witness ==
  /\ pkg = "jwt"
  /\ pc[1] = "fetch"
  /\ pc[2] = "fetch"
  /\ locals[1].cacheKey = locals[2].cacheKey
\* C27: the assertion of an acquisition has iss = clientId, sub = username,
\* aud = the audience override when there is one and instanceUrl otherwise,
\* exp = floor(now / 1000) + 180 at signing time; it is signed with RS256 and
\* its header declares RS256
C27_AssertionClaims ==
  pkg = "jwt" =>
    \A p \in Procs :
      pc[p] = "fetch" =>
        LET a == locals[p].assertion
            d == JWTConfigs[locals[p].i]
        IN /\ a.payload.iss = d.clientId
           /\ a.payload.sub = d.username
           /\ a.payload.aud = (IF d.audience # "" THEN d.audience ELSE d.instanceUrl)
           /\ a.payload.exp = (locals[p].mintedAt \div 1000) + 180
           /\ a.algorithm = "RS256"
           /\ a.header.alg = "RS256"
           /\ a.payload = locals[p].payload

\* a call with an audience override, signed one tick after the start, waits
\* for the token endpoint
C27_Witness ==
  /\ pkg = "jwt"
  /\ \E p \in Procs :
        /\ pc[p] = "fetch"
        /\ JWTConfigs[locals[p].i].audience # ""
        /\ locals[p].assertion.payload.aud = JWTConfigs[locals[p].i].audience
        /\ locals[p].assertion.payload.exp = 240
\* the cache that holds the entry of key k alone
Only(cache, k) == [j \in {k} |-> cache[j]]

\* C28: the three validity tests agree at every instant: an entry is a hit
\* for getConnection iff getCacheStats counts it valid iff the clearExpired
\* operation keeps it, in both managers; at the boundary instant itself the
\* entry is a miss, counted expired and removed
C28_ValidityTestsAgree ==
  /\ \A k \in DOMAIN tokenCache :
        /\ isTokenValid(tokenCache[k])
             <=> jwtGetCacheStats(Only(tokenCache, k), now).valid = 1
        /\ isTokenValid(tokenCache[k])
             <=> jwtGetCacheStats(Only(tokenCache, k), now).expired = 0
        /\ isTokenValid(tokenCache[k])
             <=> k \in DOMAIN clearExpiredTokens(tokenCache, now)
        /\ now = tokenCache[k].expiresAt => ~isTokenValid(tokenCache[k])
  /\ \A k \in DOMAIN connectionCache :
        /\ isConnectionValid(connectionCache[k])
             <=> oauthGetCacheStats(Only(connectionCache, k), now).valid = 1
        /\ isConnectionValid(connectionCache[k])
             <=> oauthGetCacheStats(Only(connectionCache, k), now).expired = 0
        /\ isConnectionValid(connectionCache[k])
             <=> k \in DOMAIN clearExpiredConnections(connectionCache, now)
        /\ now - connectionCache[k].createdAt = CACHE_TTL
             => ~isConnectionValid(connectionCache[k])

\* getCacheStats has just counted as expired an entry that is exactly at its
\* boundary instant
C28_Witness ==
  /\ pkg = "jwt"
  /\ ret.op = "getCacheStats"
  /\ ret.stats.expired >= 1
  /\ \E k \in DOMAIN tokenCache : now = tokenCache[k].expiresAt
\* the instants around the boundaries of the entries of both caches
BoundaryTimes ==
  {now} \cup UNION {{tokenCache[k].expiresAt - 1, tokenCache[k].expiresAt,
                     tokenCache[k].expiresAt + 1} : k \in DOMAIN tokenCache}
        \cup UNION {{connectionCache[k].createdAt + CACHE_TTL - 1,
                     connectionCache[k].createdAt + CACHE_TTL,
                     connectionCache[k].createdAt + CACHE_TTL + 1} :
                    k \in DOMAIN connectionCache}

\* C29: for every reachable cache and every clock value getCacheStats
\* returns natural numbers with total = valid + expired and total = the
\* number of keys in the cache, in both managers
C29_StatsAddUp ==
  /\ \A t \in BoundaryTimes :
        /\ LET s == jwtGetCacheStats(tokenCache, t)
           IN /\ s.total \in Nat /\ s.valid \in Nat /\ s.expired \in Nat
              /\ s.total = s.valid + s.expired
              /\ s.total = Cardinality(DOMAIN tokenCache)
        /\ LET s == oauthGetCacheStats(connectionCache, t)
           IN /\ s.total \in Nat /\ s.valid \in Nat /\ s.expired \in Nat
              /\ s.total = s.valid + s.expired
              /\ s.total = Cardinality(DOMAIN connectionCache)
  /\ ret.op = "getCacheStats" =>
        /\ ret.stats.total = ret.stats.valid + ret.stats.expired
        /\ ret.stats.total = Cardinality(DOMAIN tokenCache)
                               + Cardinality(DOMAIN connectionCache)

\* getCacheStats has just returned counts of a cache that holds a valid and
\* an expired entry
C29_Witness ==
  /\ ret.op = "getCacheStats"
  /\ ret.stats.valid = 1
  /\ ret.stats.expired = 1
  /\ ret.stats.total = 2
\* C30: a cache hit leaves the cache unchanged (no sliding expiration): an
\* entry is written only by the call that stores it, with its boundary 150 s
\* after that instant, and a hit happens before the boundary of an entry it
\* leaves as it is; so no token is served from the cache 150 s or more after
\* it was stored, however often it is hit
C30_HitLeavesCacheUnchanged ==
  [][pkg = "jwt" =>
       /\ \A k \in DOMAIN tokenCache' :
            (k \notin DOMAIN tokenCache \/ tokenCache'[k] # tokenCache[k]) =>
              /\ ret'.op = "getConnection"
              /\ ret'.kind = "miss"
              /\ ret'.key = k
              /\ tokenCache'[k].expiresAt = now' + 150000
       /\ (ret'.op = "getConnection" /\ ret'.kind = "hit") =>
            /\ tokenCache' = tokenCache
            /\ now' < tokenCache[ret'.key].expiresAt]_vars

\* a token is served from the cache 120 s or more after it was stored,
\* before its boundary
C30_Witness ==
  /\ IsJwtCall
  /\ ret.kind = "hit"
  /\ now - (tokenCache[ret.key].expiresAt - 150000) >= 120000
  /\ now < tokenCache[ret.key].expiresAt
\* the descriptors that name the principal of descriptor i
SamePrincipal(i) ==
  {j \in DOMAIN JWTConfigs : JwtPrincipal(j) = JwtPrincipal(i)}

\* C31: the JWT cache key depends on clientId and username only: descriptors
\* that agree on both share one entry whatever their instanceUrl, privateKey
\* and audience; a call served within the window gets the token of that
\* shared entry paired with its own descriptor's instanceUrl, and a call
\* that acquires found no valid entry under any descriptor of its principal
C31_KeyFromClientAndUser ==
  IsJwtCall =>
    \A j \in SamePrincipal(ret.i) :
      /\ ret.key = generateCacheKey(JWTConfigs[j])
      /\ ret.kind = "hit" =>
           /\ ret.accessToken = tokenCache[generateCacheKey(JWTConfigs[j])].token
           /\ ret.serverUrl = JWTConfigs[ret.i].instanceUrl
      /\ ret.kind = "pending" => ~JwtEntryLive(generateCacheKey(JWTConfigs[j]))

\* a descriptor that cannot acquire (its key is no RSA key) and names another
\* instanceUrl is served the token acquired for the descriptor of the same
\* principal, after one acquisition
C31_Witness ==
  /\ IsJwtCall
  /\ ret.kind = "hit"
  /\ ret.i = 4
  /\ ret.serverUrl = "https://y"
  /\ ret.accessToken # Undefined
  /\ ret.accessToken.mintedAt = StartMs
  /\ acq = 1
  /\ JWTConfigs[3].instanceUrl # JWTConfigs[4].instanceUrl
  /\ JWTConfigs[3].privateKey # JWTConfigs[4].privateKey
  /\ JWTConfigs[3].audience # JWTConfigs[4].audience
\* C32: invalidation is not undone by work started earlier: right after
\* clearAllTokens has run, a call that is still waiting for the token endpoint
\* (so it began before the clear) does not store its token when it completes
C32_ClearNotUndone ==
  [][(pkg = "jwt" /\ ret.op = "clearAll") =>
       \A p \in Procs :
         (pc[p] = "fetch" /\ pc'[p] = "idle") => tokenCache' = EmptyMap]_vars
\* C33: in the OAuth manager a non-empty explicit cacheKey replaces the
\* derived key whatever the credentials are, so calls with one explicit key
\* and different clientId or refreshToken work on one entry and a call within
\* 30 minutes gets the connection that entry holds; the empty string as
\* cacheKey falls back to the derived key
C33_ExplicitKeyReplacesDerived ==
  IsOAuthCall =>
    LET in == OAuthInputs[ret.i] IN
      /\ (in.given /\ in.cacheKey # <<>>) =>
           \A j \in DOMAIN OAuthInputs :
             (OAuthInputs[j].given /\ OAuthInputs[j].cacheKey = in.cacheKey)
               => ret.key = OAuthInputs[j].cacheKey
      /\ (in.given /\ in.cacheKey = <<>>) =>
           ret.key = oauthGenerateCacheKey(in.config, in.refreshToken)
      /\ ret.kind = "hit" =>
           /\ ret.connection = connectionCache[ret.key].connection
           /\ now - connectionCache[ret.key].createdAt < CACHE_TTL
      /\ ret.kind = "pending" =>
           \/ ret.key \notin DOMAIN connectionCache
           \/ now - connectionCache[ret.key].createdAt >= CACHE_TTL

\* a call with client 'a:b' and cache key 'd' has been served the connection
\* created for client 'a' under that key
C33_Witness ==
  /\ IsOAuthCall
  /\ ret.kind = "hit"
  /\ OAuthInputs[ret.i].given
  /\ OAuthInputs[ret.i].cacheKey = <<"d">>
  /\ ret.connection.oauth2.clientId # OAuthInputs[ret.i].config.clientId
\* C34: with USE_AWS_SECRETS 'true', once every call has completed
\* SF_SECRET_NAME and SF_PARAMETER_PREFIX hold the values they had before
\* any call began
C34_EnvRestored ==
  (pkg = "handler" /\ env.USE_AWS_SECRETS = "true" /\ AllIdle) =>
    /\ env.sfSecretName = OriginalSecretName
    /\ env.sfParameterPrefix = OriginalParameterPrefix

\* C35: with USE_AWS_SECRETS 'true', a getJWTConnectionForOrg(orgId) call
\* loads its configuration under <original SF_SECRET_NAME>-<orgId>, and a
\* handler or healthCheck invocation under the original SF_SECRET_NAME
C35_LoadsOwnSecret ==
  (pkg = "handler" /\ env.USE_AWS_SECRETS = "true") =>
    \A p \in Procs :
      pc[p] = "config" =>
        locals[p].load.secretName =
          IF locals[p].fn = "getJWTConnectionForOrg"
          THEN OriginalSecretName.s \o <<"-">> \o locals[p].orgId
          ELSE OriginalSecretName.s
\* the manager calls of a complete handler run, in their order
HandlerCalls ==
  <<"getInstance", "clearExpiredTokens", "getConnection", "query", "getCacheStats">>

\* the manager calls of a complete healthCheck run
HealthCheckCalls == <<"getInstance", "getConnection", "getCacheStats">>

\* the first parts of the messages each stage of an invocation can throw
StageErrors(log) ==
  IF log = <<>>
  THEN {"Secrets Manager error: ",
        "SF_SECRET_NAME environment variable is required when using AWS secrets"}
  ELSE IF log[Len(log)] = "getConnection"
  THEN {"JWT token exchange failed: ", "Failed to parse URL",
        "secretOrPrivateKey must be an asymmetric key when using RS256"}
  ELSE {"INVALID_SESSION_ID"}

C37_WaitForActivationBounded ==
  (pkg = "setup" /\ pc[1] # "idle" /\ locals[1].result # "setup failed") =>
    LET l == locals[1] IN
      /\ l.tests <= 10 /\ l.attempts <= 10 /\ l.sleeps <= 9
      /\ pc[1] = "initialSleep" => l.tests = 0 /\ l.sleptMs = 0
      /\ pc[1] # "initialSleep" => l.sleptMs = 120000 + 30000 * l.sleeps
      /\ pc[1] = "testJWTToken" =>
           l.attempts = l.tests /\ l.sleeps = l.tests /\ l.tests < 10
      /\ pc[1] = "sleep" =>
           l.attempts = l.tests /\ l.sleeps = l.tests - 1 /\ l.tests < 10
      /\ pc[1] \in {"generateEnvironmentConfig", "completed", "exit"} =>
           \/ l.result = "active" /\ l.attempts = l.tests - 1
                /\ l.sleeps = l.tests - 1
           \/ l.result = "warned" /\ l.attempts = 10 /\ l.tests = 10
                /\ l.sleeps = 9
      /\ l.result = "waiting" <=> pc[1] \in {"initialSleep", "testJWTToken", "sleep"}

\* all 10 attempts failed and run() is at generateEnvironmentConfig
C37_Witness ==
  /\ pkg = "setup"
  /\ pc[1] = "generateEnvironmentConfig"
  /\ locals[1].result = "warned"
  /\ locals[1].tests = 10
  /\ locals[1].sleeps = 9
====
